---- MODULE Spec2Model ----
(***************************************************************************)
(* Model of the on-demand multi-sandbox registry of agentscope-runtime:    *)
(*   MultiSandboxManager  (examples/agentbay_sandbox/backend)               *)
(*   ToolRegistry tool wrappers                                             *)
(*   AgentBay handles (AgentbaySandboxBase) and the AGB handle (AgbSandbox) *)
(*                                                                         *)
(* A vendor session id is a positive integer; 0 stands for Python's None.  *)
(* Coroutines run on one cooperative event loop: a coroutine is atomic     *)
(* between two awaits that really suspend.                                  *)
(***************************************************************************)
EXTENDS Integers, Sequences, FiniteSets, TLC

VARIABLES
    sandboxes,            \* MultiSandboxManager.sandboxes: kind -> handle (0 = None)
    sandbox_id_to_type,   \* MultiSandboxManager.sandbox_id_to_type: id -> kind
    nextId,               \* the id the vendor gives to the next AgentBay session
    sessKind,             \* vendor record: kind (image) of every session created
    cleanups,             \* number of cleanup() calls made on each handle
    callbackCount,        \* number of sandbox-created callbacks fired per id
    task,                 \* tool wrapper invocations (coroutines)
    last,                 \* the last manager operation and its result
    returned,             \* kind -> the handle ensure_sandbox last returned
                          \*         since the last cleanup_all_sandboxes
    agb_client,           \* AgbSandbox._agb_client is not None
    agb_session,          \* AgbSandbox._agb_session (0 = None)
    agb_session_info,     \* AgbSandbox._agb_session_info
    agb_image_id,         \* AgbSandbox._agb_image_id
    agbNextId,            \* the id the vendor gives to the next AGB session
    agbLive,              \* the AGB sessions alive at the vendor
    agbDeletes,           \* delete calls the vendor received, per session
    agbCleaned,           \* cleanup() has been called on the AGB handle
    agbLast,              \* the last AgbSandbox operation and its result
    svc,                  \* the last AgentService / read-only manager call
    toolkit,              \* ToolRegistry.toolkit: the function names it holds
    registered_tools,     \* ToolRegistry.registered_tools (a dict by full name)
    dupEntry,             \* the capability-table entry that is listed twice
    regLast,              \* the last register_all_tools run and its result
    listed,               \* a list_tools(tool_type) call and its result
    browser,              \* the vendor's session.browser object of a handle
    brwLast,              \* the last call_tool on the browser handle
    stream,               \* one /api/chat/stream response: its tasks, queue
                          \* and the items it has emitted
    lsn                   \* AgentService._event_listeners and the requests
                          \* that registered their queues

mgrVars == <<sandboxes, sandbox_id_to_type, nextId, sessKind, cleanups,
             callbackCount, task, last, returned>>

agbVars == <<agb_client, agb_session, agb_session_info, agb_image_id,
             agbNextId, agbLive, agbDeletes, agbCleaned, agbLast>>

regVars == <<toolkit, registered_tools, dupEntry, regLast>>

brwVars == <<browser, brwLast>>

strVars == <<stream, lsn>>

extVars == <<svc, regVars, listed, brwVars, strVars>>

vars == <<mgrVars, agbVars, extVars>>

----------------------------------------------------------------------------
(* Bounds *)

MaxSessions == 2
NTasks == 2
MaxCleanupCalls == 1
MaxAgbSessions == 3

Ids == 1..MaxSessions
Tasks == 1..NTasks

----------------------------------------------------------------------------
(* Program constants *)

Kinds == {"linux", "windows", "browser", "mobile"}

\* iteration order of the dict MultiSandboxManager.sandboxes
KindOrder == <<"linux", "windows", "browser", "mobile">>

NoKind == "none"

\* exception classes; NotImplementedError is a subclass of RuntimeError,
\* OSError stands for every class outside the four the handlers name
Catch3 == {"RuntimeError", "ValueError", "AttributeError"}
Catch4 == Catch3 \cup {"TypeError"}

Caught(exc, classes) ==
    \/ exc \in classes
    \/ exc = "NotImplementedError" /\ "RuntimeError" \in classes

----------------------------------------------------------------------------
(* Capability tables of the four AgentBay kinds *)

LinuxToolMapping ==
    {"run_shell_command", "run_ipython_cell", "read_file", "write_file",
     "list_directory", "create_directory", "move_file", "delete_file"}

WindowsToolMapping ==
    {"run_shell_command", "read_file", "write_file", "list_directory",
     "create_directory", "move_file", "delete_file", "screenshot",
     "start_app", "stop_app", "input_text", "window_maximize",
     "window_minimize"}

BrowserToolMapping ==
    {"read_file", "write_file", "list_directory", "browser_navigate",
     "browser_click", "browser_input", "browser_agent_navigate",
     "browser_agent_act", "browser_agent_extract", "browser_agent_observe",
     "browser_screenshot"}

MobileToolMapping ==
    {"read_file", "write_file", "list_directory", "mobile_click",
     "mobile_swipe", "mobile_input_text", "mobile_send_key",
     "mobile_start_app", "mobile_stop_app", "mobile_screenshot"}

\* AgentbayCodeSandbox, a kind the manager does not hold
CodeToolMapping ==
    {"run_shell_command", "run_python_code", "run_javascript_code",
     "read_file", "write_file", "list_directory", "create_directory",
     "move_file", "delete_file"}

ToolMapping(k) ==
    CASE k = "linux" -> LinuxToolMapping
      [] k = "windows" -> WindowsToolMapping
      [] k = "browser" -> BrowserToolMapping
      [] k = "mobile" -> MobileToolMapping
      [] k = "code" -> CodeToolMapping
      [] OTHER -> {}

\* the registered wrappers the model invokes: one tool of every kind
SampleTool(k) ==
    CASE k = "linux" -> "run_shell_command"
      [] k = "windows" -> "screenshot"
      [] k = "browser" -> "browser_navigate"
      [] k = "mobile" -> "mobile_click"

----------------------------------------------------------------------------
(* AgentBay handle: construction, call_tool, cleanup *)

VendorCreateOutcomes == {"ok", "refused", "TypeError", "OSError"}
VendorCallOutcomes == {"ok", "fail", "notfound", "TypeError", "OSError"}
\* the vendor answers a tool wrapper's call can meet
WrapperCallOutcomes == {"ok", "fail", "OSError"}
CleanupOutcomes == {"ok", "RuntimeError", "OSError"}
CallbackOutcomes == {"ok", "TypeError", "OSError"}

\* the inputs of one construction: client initialisation, then the vendor's
\* answer to create (not asked when the client could not be built)
ConstructInputs ==
    {<<"fail", "ok">>} \cup {<<"ok", vo>> : vo \in VendorCreateOutcomes}

\* _initialize_cloud_client: any failure of AgentBay(api_key) is re-raised
\* as RuntimeError; "none" = no exception
InitializeCloudClient(ci) == IF ci = "ok" THEN "none" ELSE "RuntimeError"

\* _create_cloud_sandbox: the session id, or None (0) when the vendor refuses
\* or raises one of the four named classes; other classes propagate
CreateCloudSandbox(vo, id) ==
    IF vo = "ok" THEN [id |-> id, exc |-> "none"]
    ELSE IF vo = "refused" THEN [id |-> 0, exc |-> "none"]
    ELSE IF Caught(vo, Catch4) THEN [id |-> 0, exc |-> "none"]
    ELSE [id |-> 0, exc |-> vo]

\* sandbox_class(api_key=..., image_id=...): builds the client, then asks the
\* vendor for a session; the handle's sandbox_id is the vendor's session id
ConstructHandle(inp, id) ==
    LET e == InitializeCloudClient(inp[1]) IN
    IF e # "none" THEN [id |-> 0, exc |-> e, requested |-> FALSE]
    ELSE LET r == CreateCloudSandbox(inp[2], id) IN
         [id |-> r.id, exc |-> r.exc, requested |-> TRUE]

\* _generic_tool_call: the fallback for names outside the tool mapping
GenericToolCall(v) ==
    IF v = "notfound" THEN "failure"
    ELSE IF v = "ok" \/ v = "fail" THEN "success"
    ELSE IF Caught(v, Catch4) THEN "failure"
    ELSE v

\* _call_cloud_tool(tool_name, arguments) on a handle of kind k with the
\* vendor answering v: "success" / "failure" is the success field of the
\* result dict, an exception name means the exception left the method
CallCloudTool(k, T, v) ==
    IF v = "notfound" THEN "failure"
    ELSE IF T \in ToolMapping(k)
         THEN IF v = "ok" THEN "success"
              ELSE IF v = "fail" THEN "failure"
              ELSE IF Caught(v, Catch4) THEN "failure"
              ELSE v
         ELSE GenericToolCall(v)

\* call_tool of an AgentBay handle delegates to _call_cloud_tool
CallTool(k, T, v) == CallCloudTool(k, T, v)

----------------------------------------------------------------------------
(* MultiSandboxManager *)

\* a coroutine of a tool wrapper: idle (none), scheduled by a gather, suspended
\* in the created-callback, or done with its result kept for the gather
NoTask == [pc |-> "idle", kind |-> NoKind, tool |-> "none", ret |-> 0,
           req |-> FALSE, resp |-> "none", gathered |-> FALSE]

NoOp == [op |-> "none", kind |-> NoKind, tool |-> "none", ret |-> 0,
         requested |-> FALSE, created |-> FALSE, raised |-> FALSE,
         called |-> <<>>, resp |-> "none", cleaned |-> {}, retry |-> FALSE,
         success |-> FALSE]

\* MultiSandboxManager.__init__: four empty slots, an empty id map
InitManager ==
    /\ sandboxes = [k \in Kinds |-> 0]
    /\ sandbox_id_to_type = [i \in Ids |-> NoKind]
    /\ nextId = 1
    /\ sessKind = [i \in Ids |-> NoKind]
    /\ cleanups = [i \in Ids |-> 0]
    /\ callbackCount = [i \in Ids |-> 0]
    /\ last = NoOp
    /\ returned = [k \in Kinds |-> 0]

\* a variant that never finds a handle in the slot
ExistingSandboxIgnored(k) == 0

\* ensure_sandbox line 188, self.sandboxes.get(sandbox_type): the slot that
\* decides whether a handle exists; None for a name that is no key
ExistingSandbox(k) == IF k \in DOMAIN sandboxes THEN sandboxes[k] ELSE 0

\* ensure_sandbox up to its only await (the created-callback): what it will
\* return (ret, 0 = None), the exception that leaves it (exc), whether the
\* vendor was asked (requested) and whether a handle was stored (created);
\* a kind outside SANDBOX_CLASSES gives None (lines 195-197)
EnsureSandbox(k, inp) ==
    IF ExistingSandbox(k) # 0
    THEN [ret |-> ExistingSandbox(k), exc |-> "none", requested |-> FALSE,
          created |-> FALSE]
    ELSE IF k \notin Kinds
    THEN [ret |-> 0, exc |-> "none", requested |-> FALSE, created |-> FALSE]
    ELSE LET c == ConstructHandle(inp, nextId) IN
         IF c.exc # "none"
         THEN [ret |-> 0,
               exc |-> IF Caught(c.exc, Catch3) THEN "none" ELSE c.exc,
               requested |-> c.requested, created |-> FALSE]
         ELSE IF c.id # 0
              THEN [ret |-> c.id, exc |-> "none", requested |-> TRUE,
                    created |-> TRUE]
              ELSE [ret |-> 0, exc |-> "none", requested |-> TRUE,
                    created |-> FALSE]

\* a variant that maps the id to the kind as soon as the vendor was asked,
\* whether or not a session came back
EnsureEffectMapOnRequest(k, r) ==
    IF r.created
    THEN /\ sandboxes' = [sandboxes EXCEPT ![k] = r.ret]
         /\ sandbox_id_to_type' = [sandbox_id_to_type EXCEPT ![r.ret] = k]
         /\ nextId' = nextId + 1
         /\ sessKind' = [sessKind EXCEPT ![r.ret] = k]
         /\ callbackCount' = [callbackCount EXCEPT ![r.ret] = @ + 1]
    ELSE /\ sandbox_id_to_type' =
               IF r.requested /\ nextId <= MaxSessions
               THEN [sandbox_id_to_type EXCEPT ![nextId] = k]
               ELSE sandbox_id_to_type
         /\ UNCHANGED <<sandboxes, nextId, sessKind, callbackCount>>

\* the effect of ensure_sandbox on the manager (lines 210-219): the new
\* handle is stored, its id mapped to the kind, the callback started
EnsureEffect(k, r) ==
    IF r.created
    THEN /\ sandboxes' = [sandboxes EXCEPT ![k] = r.ret]
         /\ sandbox_id_to_type' = [sandbox_id_to_type EXCEPT ![r.ret] = k]
         /\ nextId' = nextId + 1
         /\ sessKind' = [sessKind EXCEPT ![r.ret] = k]
         /\ callbackCount' = [callbackCount EXCEPT ![r.ret] = @ + 1]
    ELSE UNCHANGED <<sandboxes, sandbox_id_to_type, nextId, sessKind,
                     callbackCount>>

\* tool_wrapper's except clause (line 112): the three named classes become a
\* failure response, every other class leaves the wrapper
WrapperCatch(exc) == IF Caught(exc, Catch3) THEN "failure" ELSE "raised"

\* a variant that takes the handle from the slot at the time of the call
WrapperTargetSlot(k, ret) == sandboxes[k]

\* the handle a tool wrapper passes to call_tool: the value ensure_sandbox
\* returned to it (tool_registry.py lines 66 and 79)
WrapperTarget(k, ret) == ret

\* tool_wrapper after ensure_sandbox returned ret: the failure response when
\* there is no handle, else one call_tool and the response built from it
WrapperFinish(k, T, ret, v) ==
    IF ret = 0
    THEN [called |-> <<>>, resp |-> "failure"]
    ELSE LET res == CallTool(k, T, v) IN
         [called |-> <<WrapperTarget(k, ret)>>,
          resp |-> IF res \in {"success", "failure"} THEN res
                   ELSE WrapperCatch(res)]

\* what is left of a coroutine that has returned: its result is kept when a
\* gather waits for it, else the coroutine is gone
Finished(t, k, T, ret, req, resp) ==
    IF task[t].gathered
    THEN [pc |-> "done", kind |-> k, tool |-> T, ret |-> ret, req |-> req,
          resp |-> resp, gathered |-> TRUE]
    ELSE NoTask

\* one invocation of the registered wrapper {k}_{T}, run until it suspends in
\* the created-callback or returns; inp is read only when a handle has to be
\* constructed, v only when call_tool is reached; retry records that the
\* operation before it was an ensure_sandbox(k) that gave no handle
RunWrapper(t, k, T, inp, v) ==
    LET r == EnsureSandbox(k, inp)
        f == WrapperFinish(k, T, r.ret, v)
        resp == IF r.created THEN "none"
                ELSE IF r.exc # "none" THEN WrapperCatch(r.exc)
                ELSE f.resp
    IN
    /\ EnsureEffect(k, r)
    /\ task' = [task EXCEPT ![t] =
           IF r.created
           THEN [pc |-> "in_callback", kind |-> k, tool |-> T, ret |-> r.ret,
                 req |-> TRUE, resp |-> "none", gathered |-> @.gathered]
           ELSE Finished(t, k, T, r.ret, r.requested, resp)]
    /\ last' = [op |-> "ensure", kind |-> k, tool |-> T, ret |-> r.ret,
                requested |-> r.requested, created |-> r.created,
                raised |-> r.exc # "none",
                called |-> IF r.created \/ r.exc # "none" THEN <<>>
                           ELSE f.called,
                resp |-> resp, cleaned |-> {},
                retry |-> last.op = "ensure" /\ last.kind = k
                          /\ last.ret = 0]
    /\ returned' = IF ~r.created /\ r.ret # 0
                   THEN [returned EXCEPT ![k] = r.ret]
                   ELSE returned
    /\ UNCHANGED cleanups

\* the inputs of one run of the wrapper of kind k
RunWrapperSome(t, k) ==
    IF ExistingSandbox(k) # 0
    THEN \E v \in WrapperCallOutcomes :
            RunWrapper(t, k, SampleTool(k), <<"ok", "ok">>, v)
    ELSE \E inp \in ConstructInputs :
            /\ inp = <<"ok", "ok">> => nextId <= MaxSessions
            /\ RunWrapper(t, k, SampleTool(k), inp, "ok")

\* the agent invokes the wrapper {k}_{T}; the coroutines are interchangeable,
\* so the free one with the least index takes the call
WrapperInvoke(t) ==
    /\ task[t].pc = "idle"
    /\ \A u \in Tasks : u < t => task[u].pc # "idle"
    /\ \E k \in Kinds : RunWrapperSome(t, k)
    /\ UNCHANGED <<agbVars, extVars>>

\* the event loop starts a wrapper that was scheduled together with others
WrapperStart(t) ==
    /\ task[t].pc = "scheduled"
    /\ RunWrapperSome(t, task[t].kind)
    /\ UNCHANGED <<agbVars, extVars>>

\* _notify_sandbox_created returns to ensure_sandbox (the callback finished
\* with outcome cb: the four named classes are logged there, any other class
\* goes on through ensure_sandbox), ensure_sandbox returns the handle it
\* created and the wrapper goes on to call_tool
WrapperResume(t) ==
    /\ task[t].pc = "in_callback"
    /\ \E cb \in CallbackOutcomes, v \in WrapperCallOutcomes :
          LET escaped == cb # "ok" /\ ~Caught(cb, Catch4)
                         /\ ~Caught(cb, Catch3)
              k == task[t].kind
              f == WrapperFinish(k, task[t].tool, task[t].ret, v)
              resp == IF escaped THEN WrapperCatch(cb) ELSE f.resp
          IN
          /\ cb # "ok" => v = "ok"
          /\ last' = [op |-> "ensure_return", kind |-> k,
                      tool |-> task[t].tool, ret |-> task[t].ret,
                      requested |-> FALSE, created |-> FALSE,
                      raised |-> escaped,
                      called |-> IF escaped THEN <<>> ELSE f.called,
                      resp |-> resp, cleaned |-> {}, retry |-> FALSE]
          /\ task' = [task EXCEPT ![t] =
                 Finished(t, k, task[t].tool,
                          IF escaped THEN 0 ELSE task[t].ret, TRUE, resp)]
          /\ returned' = IF escaped THEN returned
                         ELSE [returned EXCEPT ![k] = task[t].ret]
    /\ UNCHANGED <<sandboxes, sandbox_id_to_type, nextId, sessKind,
                   cleanups, callbackCount>>
    /\ UNCHANGED <<agbVars, extVars>>

\* initialize_all_sandboxes, the loop of lines 121-162 from the i-th kind on:
\* every kind is constructed anew and a handle with an id is stored in its
\* slot; one of the three named classes skips the kind, any other class
\* leaves the method
RECURSIVE InitLoop(_, _, _, _, _)
InitLoop(i, inps, sb, nid, sk) ==
    IF i > Len(KindOrder)
    THEN [sb |-> sb, nid |-> nid, sk |-> sk, raised |-> FALSE]
    ELSE LET k == KindOrder[i]
             c == ConstructHandle(inps[k], nid) IN
         IF c.exc # "none"
         THEN IF Caught(c.exc, Catch3)
              THEN InitLoop(i + 1, inps, sb, nid, sk)
              ELSE [sb |-> sb, nid |-> nid, sk |-> sk, raised |-> TRUE]
         ELSE IF c.id # 0
              THEN InitLoop(i + 1, inps, [sb EXCEPT ![k] = c.id], nid + 1,
                            [sk EXCEPT ![c.id] = k])
              ELSE InitLoop(i + 1, inps, sb, nid, sk)

\* the construction inputs of one initialize_all_sandboxes: the kinds of okSet
\* get a session, the kind at position stopAt (0 = none) meets an exception
\* outside the named classes, every other kind fails quietly (the vendor
\* refuses linux and browser, the client of windows and mobile is not built)
InitInputs(okSet, stopAt) ==
    [k \in Kinds |->
        IF stopAt # 0 /\ KindOrder[stopAt] = k THEN <<"ok", "OSError">>
        ELSE IF k \in okSet THEN <<"ok", "ok">>
        ELSE IF k \in {"linux", "browser"} THEN <<"ok", "refused">>
        ELSE <<"fail", "ok">>]

InitializeAllSandboxes ==
    \E okSet \in SUBSET Kinds, stopAt \in 0..Len(KindOrder) :
       /\ Cardinality(okSet) <= MaxSessions + 1 - nextId
       /\ stopAt # 0 =>
             \A i \in stopAt..Len(KindOrder) : KindOrder[i] \notin okSet
       /\ LET r == InitLoop(1, InitInputs(okSet, stopAt), sandboxes,
                            nextId, sessKind) IN
          /\ sandboxes' = r.sb
          /\ nextId' = r.nid
          /\ sessKind' = r.sk
          /\ last' = [NoOp EXCEPT !.op = "initialize_all",
                                  !.created = r.nid > nextId,
                                  !.raised = r.raised,
                                  \* return initialized_count > 0
                                  !.success =
                                      /\ ~r.raised
                                      /\ Cardinality({k \in Kinds :
                                                        r.sb[k] # 0}) > 0]
       /\ UNCHANGED <<sandbox_id_to_type, cleanups, callbackCount, task,
                      returned>>
       /\ UNCHANGED <<agbVars, extVars>>

\* cleanup() of an AgentBay handle: "ok", or the exception that leaves it
HandleCleanup(out) == out

\* cleanup_all_sandboxes, the loop of lines 378-390 from the i-th kind on:
\* cleanup() is called on every handle held in a slot; one of the three named
\* classes is logged, any other class leaves the method
RECURSIVE CleanupLoop(_, _, _, _)
CleanupLoop(i, outs, cl, done) ==
    IF i > Len(KindOrder)
    THEN [cl |-> cl, cleaned |-> done, raised |-> FALSE]
    ELSE LET k == KindOrder[i]
             h == sandboxes[k] IN
         IF h = 0
         THEN CleanupLoop(i + 1, outs, cl, done)
         ELSE LET cl2 == [cl EXCEPT ![h] = @ + 1]
                  e == HandleCleanup(outs[k]) IN
              IF e = "ok" \/ Caught(e, Catch3)
              THEN CleanupLoop(i + 1, outs, cl2, done \cup {h})
              ELSE [cl |-> cl2, cleaned |-> done \cup {h}, raised |-> TRUE]

\* the slots are cleared (lines 393-398) only when the loop was not left by
\* an exception
CleanupAllSandboxes ==
    /\ \A k \in Kinds :
          sandboxes[k] # 0 => cleanups[sandboxes[k]] < MaxCleanupCalls
    /\ \E outs \in [{k \in Kinds : sandboxes[k] # 0} -> CleanupOutcomes] :
       /\ LET r == CleanupLoop(1, outs, cleanups, {}) IN
          /\ cleanups' = r.cl
          /\ sandboxes' = IF r.raised THEN sandboxes
                          ELSE [k \in Kinds |-> 0]
          /\ last' = [NoOp EXCEPT !.op = "cleanup_all",
                                  !.raised = r.raised,
                                  !.cleaned = r.cleaned]
    /\ returned' = [k \in Kinds |-> 0]
    /\ UNCHANGED <<sandbox_id_to_type, nextId, sessKind, callbackCount,
                   task>>
    /\ UNCHANGED <<agbVars, extVars>>

----------------------------------------------------------------------------
(* AgbSandbox: one handle and the vendor behind it *)

AgbImages == {"agb-code-space-1", "agb-browser-use-1"}
BrowserImage == "agb-browser-use-1"

\* the tool names AgbSandbox.call_tool dispatches on (lines 318-341)
AgbSessionTools ==
    {"agb_execute_code", "agb_execute_command", "agb_read_file",
     "agb_write_file", "agb_list_directory", "agb_create_directory"}
AgbCallToolNames == AgbSessionTools \cup {"agb_initialize_browser"}

\* AgbSandbox.list_tools(): the names of AGB_TOOLS (agb_tools.py), in order
AgbListTools ==
    <<"agb_execute_code", "agb_file_operation", "agb_execute_command",
      "agb_browser_automation", "agb_advanced_code", "agb_data_processing">>

\* names called in the model: the dispatched ones and the listed ones
AgbToolNames ==
    AgbCallToolNames \cup {AgbListTools[i] : i \in 1..Len(AgbListTools)}

AgbCreateOutcomes == {"ok", "refused", "raise"}
AgbDeleteOutcomes == {"ok", "raise"}
AgbCallOutcomes == {"ok", "fail", "raise"}
\* the text the vendor attaches to a failure: a message or nothing
AgbErrorTexts == {"msg", ""}

NoInfo ==
    [session_id |-> 0, image_id |-> "none", status |-> "none",
     endpoint_url |-> FALSE]

NoAgbOp == [op |-> "none", name |-> "none", success |-> FALSE,
            error |-> "none", raised |-> FALSE, created |-> FALSE,
            calls |-> 0]

\* the handle's fields and the vendor's sessions as one value
AgbState ==
    [client |-> agb_client, session |-> agb_session,
     info |-> agb_session_info, next |-> agbNextId, live |-> agbLive,
     deletes |-> agbDeletes, calls |-> 0]

\* a variant of _create_agb_session that drops the session the handle holds
\* when the vendor does not give a new one
CreateAgbSessionClearOnFailure(st, image, co) ==
    IF ~st.client THEN [st |-> st, ok |-> FALSE]
    ELSE IF co = "ok"
         THEN [st |-> [st EXCEPT !.session = st.next,
                                 !.info = [session_id |-> st.next,
                                           image_id |-> image,
                                           status |-> "active",
                                           endpoint_url |-> FALSE],
                                 !.next = st.next + 1,
                                 !.live = st.live \cup {st.next},
                                 !.calls = @ + 1],
               ok |-> TRUE]
         ELSE [st |-> [st EXCEPT !.session = 0, !.info = NoInfo,
                                 !.calls = @ + 1],
               ok |-> FALSE]

\* _create_agb_session(image_id): a session of the vendor, or False when
\* there is no client, the vendor refuses or any exception is raised
CreateAgbSession(st, image, co) ==
    IF ~st.client THEN [st |-> st, ok |-> FALSE]
    ELSE IF co = "ok"
         THEN [st |-> [st EXCEPT !.session = st.next,
                                 !.info = [session_id |-> st.next,
                                           image_id |-> image,
                                           status |-> "active",
                                           endpoint_url |-> FALSE],
                                 !.next = st.next + 1,
                                 !.live = st.live \cup {st.next},
                                 !.calls = @ + 1],
               ok |-> TRUE]
         ELSE [st |-> [st EXCEPT !.calls = @ + 1], ok |-> FALSE]

\* a variant of _delete_agb_session that clears the fields in the try block,
\* after the delete
DeleteAgbSessionClearInTry(st, do) ==
    IF st.client /\ st.session # 0
    THEN IF do = "ok"
         THEN [st EXCEPT !.session = 0, !.info = NoInfo,
                         !.live = st.live \ {st.session},
                         !.deletes[st.session] = @ + 1,
                         !.calls = @ + 1]
         ELSE [st EXCEPT !.deletes[st.session] = @ + 1, !.calls = @ + 1]
    ELSE st

\* _delete_agb_session: one delete call for the session; the fields are
\* cleared in the finally clause whether or not the vendor deleted it
DeleteAgbSession(st, do) ==
    IF st.client /\ st.session # 0
    THEN [st EXCEPT !.session = 0, !.info = NoInfo,
                    !.live = IF do = "ok" THEN st.live \ {st.session}
                             ELSE st.live,
                    !.deletes[st.session] = @ + 1,
                    !.calls = @ + 1]
    ELSE st

\* get_agb_session: a missing session is created on the spot
GetAgbSession(st, co) ==
    IF st.session = 0
    THEN LET r == CreateAgbSession(st, agb_image_id, co) IN
         IF ~r.ok THEN [st |-> r.st, session |-> 0]
         ELSE [st |-> r.st, session |-> r.st.session]
    ELSE [st |-> st, session |-> st.session]

\* a variant of the six session methods that calls the vendor without
\* looking at what get_agb_session returned
SessionOpUnchecked(st, co, v, em) ==
    LET g == GetAgbSession(st, co)
        called == [g.st EXCEPT !.calls = @ + 1] IN
    IF v = "ok"
    THEN [st |-> called, success |-> TRUE, error |-> "none",
          raised |-> FALSE]
    ELSE [st |-> called, success |-> FALSE, error |-> em, raised |-> FALSE]

\* execute_code, execute_command, read_file, write_file, list_directory,
\* create_directory: get the session, call the vendor, turn the answer or any
\* exception into a result dict
SessionOp(st, co, v, em) ==
    LET g == GetAgbSession(st, co)
        called == [g.st EXCEPT !.calls = @ + 1] IN
    IF g.session = 0
    THEN [st |-> g.st, success |-> FALSE, error |-> "msg", raised |-> FALSE]
    ELSE IF v = "ok"
         THEN [st |-> called, success |-> TRUE, error |-> "none",
               raised |-> FALSE]
         ELSE [st |-> called, success |-> FALSE, error |-> em,
               raised |-> FALSE]

\* initialize_browser: a session of another image is dropped, a browser
\* session is created when there is none, then the browser is initialised
InitializeBrowser(st, co, do, v, em) ==
    LET st1 == IF st.info # NoInfo /\ st.info.image_id # BrowserImage
               THEN DeleteAgbSession(st, do) ELSE st
        r == IF st1.session = 0 THEN CreateAgbSession(st1, BrowserImage, co)
             ELSE [st |-> st1, ok |-> TRUE]
    IN
    IF ~r.ok
    THEN [st |-> r.st, success |-> FALSE, error |-> "msg", raised |-> FALSE]
    ELSE IF v = "ok"
         THEN [st |-> [r.st EXCEPT !.info.endpoint_url = TRUE,
                                   !.calls = @ + 1],
               success |-> TRUE, error |-> "none", raised |-> FALSE]
         ELSE IF v = "fail"
         THEN [st |-> [r.st EXCEPT !.calls = @ + 1], success |-> FALSE,
               error |-> "msg", raised |-> FALSE]
         ELSE [st |-> [r.st EXCEPT !.calls = @ + 1], success |-> FALSE,
               error |-> em, raised |-> FALSE]

\* AgbSandbox.call_tool(name, arguments): seven names are dispatched, any
\* other name raises NotImplementedError
AgbCallTool(st, name, co, do, v, em) ==
    IF name \in AgbSessionTools THEN SessionOp(st, co, v, em)
    ELSE IF name = "agb_initialize_browser"
         THEN InitializeBrowser(st, co, do, v, em)
         ELSE [st |-> st, success |-> FALSE, error |-> "none",
               raised |-> TRUE]

\* the handle and the vendor take the value st, the operation is recorded
AgbStep(op, name, r) ==
    /\ agb_session' = r.st.session
    /\ agb_session_info' = r.st.info
    /\ agbNextId' = r.st.next
    /\ agbLive' = r.st.live
    /\ agbDeletes' = r.st.deletes
    /\ agbLast' = [op |-> op, name |-> name, success |-> r.success,
                   error |-> r.error, raised |-> r.raised,
                   created |-> r.st.next > agbNextId,
                   calls |-> r.st.calls]
    /\ UNCHANGED <<agb_client, agb_image_id>>

\* inputs of one operation: what the vendor answers to create, delete and the
\* call itself; a new session is granted only below the bound
AgbInputsOk(co) == co = "ok" => agbNextId <= MaxAgbSessions

\* AgbSandbox(agb_image_id=image): CloudSandbox.__init__ runs
\* _initialize_cloud_service, which builds the client (unless the API key or
\* the SDK is missing) and creates the first session
InitAgb ==
    \E client \in BOOLEAN, image \in AgbImages, co \in AgbCreateOutcomes :
       LET st0 == [client |-> client, session |-> 0, info |-> NoInfo,
                   next |-> 1, live |-> {},
                   deletes |-> [i \in 1..MaxAgbSessions |-> 0],
                   calls |-> 0]
           r == CreateAgbSession(st0, image, co) IN
       /\ agb_client = client
       /\ agb_image_id = image
       /\ agb_session = r.st.session
       /\ agb_session_info = r.st.info
       /\ agbNextId = r.st.next
       /\ agbLive = r.st.live
       /\ agbDeletes = r.st.deletes
       /\ agbCleaned = FALSE
       /\ agbLast = NoAgbOp

\* no AgbSandbox has been constructed
InitNoAgb ==
    /\ agb_client = FALSE
    /\ agb_image_id = "agb-code-space-1"
    /\ agb_session = 0
    /\ agb_session_info = NoInfo
    /\ agbNextId = 1
    /\ agbLive = {}
    /\ agbDeletes = [i \in 1..MaxAgbSessions |-> 0]
    /\ agbCleaned = FALSE
    /\ agbLast = NoAgbOp

\* a direct call of one of the six session methods
AgbSessionMethod ==
    \E name \in AgbSessionTools, co \in AgbCreateOutcomes,
       v \in AgbCallOutcomes, em \in AgbErrorTexts :
       /\ AgbInputsOk(co)
       /\ AgbStep("method", name, SessionOp(AgbState, co, v, em))
       /\ UNCHANGED <<mgrVars, extVars, agbCleaned>>

\* is_available() and get_info(), which reports is_available()
AgbIsAvailable ==
    \E op \in {"is_available", "get_info"}, co \in AgbCreateOutcomes :
       /\ AgbInputsOk(co)
       /\ LET g == GetAgbSession(AgbState, co) IN
          AgbStep(op, "none",
                  [st |-> g.st,
                   success |-> agb_client /\ g.session # 0,
                   error |-> "none", raised |-> FALSE])
       /\ UNCHANGED <<mgrVars, extVars, agbCleaned>>

AgbInitializeBrowser ==
    \E co \in AgbCreateOutcomes, do \in AgbDeleteOutcomes,
       v \in AgbCallOutcomes, em \in AgbErrorTexts :
       /\ AgbInputsOk(co)
       /\ AgbStep("initialize_browser", "none",
                  InitializeBrowser(AgbState, co, do, v, em))
       /\ UNCHANGED <<mgrVars, extVars, agbCleaned>>

\* get_browser_endpoint: the stored endpoint, else initialize_browser()
AgbGetBrowserEndpoint ==
    \E co \in AgbCreateOutcomes, do \in AgbDeleteOutcomes,
       v \in AgbCallOutcomes, em \in AgbErrorTexts :
       /\ AgbInputsOk(co)
       /\ IF agb_session_info # NoInfo /\ agb_session_info.endpoint_url
          THEN AgbStep("get_browser_endpoint", "none",
                       [st |-> AgbState, success |-> TRUE,
                        error |-> "none", raised |-> FALSE])
          ELSE AgbStep("get_browser_endpoint", "none",
                       InitializeBrowser(AgbState, co, do, v, em))
       /\ UNCHANGED <<mgrVars, extVars, agbCleaned>>

AgbCallToolAction ==
    \E name \in AgbToolNames, co \in AgbCreateOutcomes,
       do \in AgbDeleteOutcomes, v \in AgbCallOutcomes,
       em \in AgbErrorTexts :
       /\ AgbInputsOk(co)
       /\ AgbStep("call_tool", name,
                  AgbCallTool(AgbState, name, co, do, v, em))
       /\ UNCHANGED <<mgrVars, extVars, agbCleaned>>

\* cleanup(): _delete_agb_session()
AgbCleanup ==
    \E do \in AgbDeleteOutcomes :
       /\ AgbStep("cleanup", "none",
                  [st |-> DeleteAgbSession(AgbState, do), success |-> TRUE,
                   error |-> "none", raised |-> FALSE])
       /\ agbCleaned' = TRUE
       /\ UNCHANGED <<mgrVars, extVars>>

\* call_tool of a stand-alone AgentBay handle of kind k
AgentbayCallTool ==
    \E k \in Kinds, v \in VendorCallOutcomes :
    \E T \in {SampleTool(k), "unknown_tool"} :
       LET res == CallTool(k, T, v) IN
       /\ agbLast' = [op |-> "agentbay_call_tool", name |-> T,
                      success |-> res = "success",
                      error |-> IF res = "failure" THEN "msg" ELSE "none",
                      raised |-> res \notin {"success", "failure"},
                      created |-> FALSE]
       /\ UNCHANGED <<mgrVars, extVars, agb_client, agb_session,
                      agb_session_info, agb_image_id, agbNextId, agbLive,
                      agbDeletes, agbCleaned>>

----------------------------------------------------------------------------
(* Specifications *)

IdleTasks == task = [t \in Tasks |-> NoTask]

\* no AgentService call has been made
NoSvc == [op |-> "none", pc |-> "idle", kind |-> NoKind, id |-> 0,
          ret |-> 0, success |-> FALSE, raised |-> FALSE,
          requested |-> FALSE, tool |-> "none", shot |-> FALSE,
          byId |-> 0, typeById |-> NoKind, slot |-> 0,
          counts |-> [k \in Kinds |-> 0], idKeys |-> {}, kindKeys |-> {}]

InitSvc == svc = NoSvc

\* no capability-table entry is listed twice
NoDup == [kind |-> NoKind, idx |-> 0]

\* no register_all_tools run has been made
NoReg == [op |-> "none", run |-> 0, raised |-> FALSE, met |-> {}]

\* ToolRegistry.__init__: an empty Toolkit and an empty registered_tools
InitRegistry ==
    /\ toolkit = {}
    /\ registered_tools = {}
    /\ regLast = NoReg

\* no list_tools call is under study
NoListed == [kind |-> NoKind, tool_type |-> "", called |-> FALSE,
             tools |-> <<>>, total_count |-> 0, tools_by_type |-> <<>>]

\* session.browser as the handle sees it: the attributes the handlers probe
\* with hasattr, and whether the vendor's browser is initialized
NoBrowser ==
    [has_is_initialized |-> TRUE, has_agent |-> TRUE, has_initialize |-> TRUE,
     nav |-> "browser_navigate", has_navigate |-> TRUE,
     initialized |-> FALSE]

\* no call_tool has been made on the browser handle
NoBrw == [tool |-> "none", success |-> FALSE, raised |-> FALSE,
          initCalls |-> 0, initOk |-> FALSE, opCalls |-> 0,
          opOk |-> FALSE, wasInitialized |-> FALSE, opUninit |-> FALSE]

InitNoBrowser == browser = NoBrowser /\ brwLast = NoBrw

\* a response whose generator has not run: no task exists, nothing is
\* queued or emitted, the event loop has nothing to run for it
NoStream ==
    [pc |-> "idle", running |-> FALSE, woken |-> FALSE, ready |-> <<>>,
     msgTask |-> "none", evtTask |-> "none", held |-> 0, queue |-> <<>>,
     out |-> <<>>, produced |-> 0, put |-> 0, ended |-> FALSE,
     stream_finished |-> FALSE, evtInDone |-> FALSE]

\* no request has been made: no queue is registered, no event emitted
MaxRequests == 2
Requests == 1..MaxRequests

NoLsn ==
    [listeners |-> <<>>, phase |-> [r \in Requests |-> "none"],
     got |-> [r \in Requests |-> <<>>], emitted |-> 0]

InitNoStream == stream = NoStream /\ lsn = NoLsn

InitExt ==
    /\ InitSvc
    /\ InitRegistry
    /\ dupEntry = NoDup
    /\ listed = NoListed
    /\ InitNoBrowser
    /\ InitNoStream

\* the manager of one agent session, driven by tool wrappers,
\* initialize_all_sandboxes and cleanup_all_sandboxes
Init == InitManager /\ IdleTasks /\ InitNoAgb /\ InitExt

Next ==
    \/ \E t \in Tasks : WrapperInvoke(t)
    \/ \E t \in Tasks : WrapperResume(t)
    \/ InitializeAllSandboxes
    \/ CleanupAllSandboxes

Spec == Init /\ [][Next]_vars

\* tool wrappers started together (asyncio.gather) on a fresh manager, with
\* nothing else running
InitEnsure ==
    /\ InitManager
    /\ InitNoAgb
    /\ InitExt
    /\ \E ks \in [Tasks -> Kinds] :
          task = [t \in Tasks |->
                    [pc |-> "scheduled", kind |-> ks[t],
                     tool |-> SampleTool(ks[t]), ret |-> 0, req |-> FALSE,
                     resp |-> "none", gathered |-> TRUE]]

NextEnsure ==
    \/ \E t \in Tasks : WrapperStart(t)
    \/ \E t \in Tasks : WrapperResume(t)

SpecEnsure == InitEnsure /\ [][NextEnsure]_vars

\* one AgbSandbox handle (and stand-alone AgentBay handles) called directly
InitAgbSpec == InitManager /\ IdleTasks /\ InitAgb /\ InitExt

NextAgb ==
    \/ AgbSessionMethod
    \/ AgbIsAvailable
    \/ AgbInitializeBrowser
    \/ AgbGetBrowserEndpoint
    \/ AgbCallToolAction
    \/ AgbCleanup
    \/ AgentbayCallTool

SpecAgb == InitAgbSpec /\ [][NextAgb]_vars

----------------------------------------------------------------------------
(* Properties of the manager *)

\* the sessions the manager created for kind k on which cleanup() was never
\* called
LiveSessions(k) == {i \in Ids : sessKind[i] = k /\ cleanups[i] = 0}

\* C1: in every reachable state of the manager every kind has at most one
\* live vendor session (created and not cleaned up)
C1_AtMostOneLiveSession ==
    \A k \in Kinds : Cardinality(LiveSessions(k)) <= 1

\* C4: once cleanup_all_sandboxes has returned, every slot is None and no
\* session the manager created is still live
C4_CleanupAllLeavesNothingLive ==
    (last.op = "cleanup_all" /\ ~last.raised) =>
        /\ \A k \in Kinds : sandboxes[k] = 0
        /\ \A k \in Kinds : LiveSessions(k) = {}

\* C5: cleanup_all_sandboxes never raises, whatever a handle's cleanup()
\* raises: it returns normally with every slot cleared
C5_CleanupAllNeverRaises ==
    last.op = "cleanup_all" =>
        /\ ~last.raised
        /\ \A k \in Kinds : sandboxes[k] = 0

\* C9: a tool wrapper never raises to the agent: every exception of
\* ensure_sandbox or call_tool ends as a failure response
C9_WrapperNeverRaises ==
    last.op \in {"ensure", "ensure_return"} => last.resp # "raised"

\* C2: once ensure_sandbox(K) has returned a handle, a later
\* ensure_sandbox(K) with no cleanup_all_sandboxes in between returns the same
\* handle, asks the vendor for nothing, leaves sandboxes and
\* sandbox_id_to_type as they are and fires no callback
C2_EnsureIdempotent ==
    [][\A k \in Kinds :
          (last'.op = "ensure" /\ last'.kind = k /\ returned[k] # 0) =>
             /\ last'.ret = returned[k]
             /\ ~last'.requested
             /\ UNCHANGED <<sandboxes, sandbox_id_to_type, callbackCount,
                            nextId>>]_vars

C10_CallToolOnlyOnEnsuredHandle ==
    last.op \in {"ensure", "ensure_return"} =>
        /\ Len(last.called) <= 1
        /\ last.ret = 0 => last.called = <<>>
        /\ \A i \in 1..Len(last.called) :
              /\ last.called[i] = last.ret
              /\ sessKind[last.called[i]] = last.kind

\* call_tool went to the handle the wrapper's ensure_sandbox created although
\* the slot of the kind holds something else by now
C10_Witness ==
    /\ last.op = "ensure_return"
    /\ last.called = <<last.ret>>
    /\ sandboxes[last.kind] # last.ret

----------------------------------------------------------------------------
(* Properties of wrappers started together *)

\* the wrappers of kind k that were started together
GatheredOf(k) == {t \in DOMAIN task : task[t].gathered /\ task[t].kind = k}

\* the sessions the vendor created for kind k
SessionsOf(k) == {i \in Ids : sessKind[i] = k}

----------------------------------------------------------------------------
(* Properties of a handle *)

\* C7: once cleanup() has been called on an AgbSandbox handle, no later
\* operation on it creates a vendor session or gives it a session again
C7_NoWayBackFromCleaned ==
    agbCleaned => (agb_session = 0 /\ ~agbLast.created)

\* C8: call_tool of a handle never propagates an exception, and a call that
\* did not succeed carries a non-empty error string, whatever the tool name
\* and whatever the vendor raises
C8_CallToolNeverRaises ==
    agbLast.op \in {"call_tool", "agentbay_call_tool"} =>
        /\ ~agbLast.raised
        /\ ~agbLast.success => agbLast.error \notin {"", "none"}

----------------------------------------------------------------------------
(* list_tools of the AgentBay kinds *)

AgentbayKinds == Kinds \cup {"code"}

\* the six file tools of linux, windows and code
FileTools6 ==
    <<"read_file", "write_file", "list_directory", "create_directory",
      "move_file", "delete_file">>

\* the three file tools of browser and mobile
FileTools3 == <<"read_file", "write_file", "list_directory">>

\* tools_by_type of every list_tools, in the order the lists are added up
LinuxToolsByType ==
    <<[type |-> "file", tools |-> FileTools6],
      [type |-> "command",
       tools |-> <<"run_shell_command", "run_ipython_cell">>]>>

WindowsToolsByType ==
    <<[type |-> "file", tools |-> FileTools6],
      [type |-> "command", tools |-> <<"run_shell_command">>],
      [type |-> "desktop",
       tools |-> <<"start_app", "stop_app", "input_text", "window_maximize",
                   "window_minimize">>],
      [type |-> "system", tools |-> <<"screenshot">>]>>

BrowserToolsByType ==
    <<[type |-> "file", tools |-> FileTools3],
      [type |-> "browser",
       tools |-> <<"browser_navigate", "browser_click", "browser_input">>],
      [type |-> "agent",
       tools |-> <<"browser_agent_navigate", "browser_agent_act",
                   "browser_agent_extract", "browser_agent_observe",
                   "browser_screenshot">>]>>

MobileToolsByType ==
    <<[type |-> "file", tools |-> FileTools3],
      [type |-> "ui",
       tools |-> <<"mobile_click", "mobile_swipe", "mobile_input_text",
                   "mobile_send_key">>],
      [type |-> "app", tools |-> <<"mobile_start_app", "mobile_stop_app">>],
      [type |-> "system", tools |-> <<"mobile_screenshot">>]>>

CodeToolsByType ==
    <<[type |-> "file", tools |-> FileTools6],
      [type |-> "code",
       tools |-> <<"run_shell_command", "run_python_code",
                   "run_javascript_code">>]>>

ToolsByType(k) ==
    CASE k = "linux" -> LinuxToolsByType
      [] k = "windows" -> WindowsToolsByType
      [] k = "browser" -> BrowserToolsByType
      [] k = "mobile" -> MobileToolsByType
      [] k = "code" -> CodeToolsByType

\* file_tools + command_tools + ...: the lists of the first n categories,
\* one after the other
RECURSIVE AllTools(_, _)
AllTools(cats, n) ==
    IF n = 0 THEN <<>> ELSE AllTools(cats, n - 1) \o cats[n].tools

\* tools_by_type.get(tool_type, [])
ToolsOfType(cats, tool_type) ==
    IF \E i \in 1..Len(cats) : cats[i].type = tool_type
    THEN cats[CHOOSE i \in 1..Len(cats) : cats[i].type = tool_type].tools
    ELSE <<>>

\* the empty string stands for tool_type None (both are falsy in
\* "if tool_type:")
NoFilter == ""

\* a variant of list_tools that ignores the filter
ListToolsUnfiltered(k, tool_type) ==
    LET all_tools == AllTools(ToolsByType(k), Len(ToolsByType(k))) IN
    [tools |-> all_tools, total_count |-> Len(all_tools)]

\* list_tools(tool_type) of kind k
ListTools(k, tool_type) ==
    IF tool_type # NoFilter
    THEN LET tools == ToolsOfType(ToolsByType(k), tool_type) IN
         [tools |-> tools, total_count |-> Len(tools)]
    ELSE LET all_tools == AllTools(ToolsByType(k), Len(ToolsByType(k))) IN
         [tools |-> all_tools, total_count |-> Len(all_tools)]

----------------------------------------------------------------------------
(* Read-only operations of the manager and the AgentService calls *)

\* a kind outside SANDBOX_CLASSES
UnknownKind == "code"
ServiceKinds == Kinds \cup {UnknownKind}

\* the ids a caller asks about: every id the vendor can give and one more
QueryIds == 1..(MaxSessions + 1)

\* get_sandbox(sandbox_type): self.sandboxes.get(sandbox_type)
GetSandbox(k) == ExistingSandbox(k)

\* get_sandbox_type_by_id: self.sandbox_id_to_type.get(sandbox_id)
GetSandboxTypeById(i) ==
    IF i \in DOMAIN sandbox_id_to_type THEN sandbox_id_to_type[i] ELSE NoKind

\* get_sandbox_by_id: the slot of the kind the id is mapped to
GetSandboxById(i) ==
    LET sandbox_type == GetSandboxTypeById(i) IN
    IF sandbox_type # NoKind THEN GetSandbox(sandbox_type) ELSE 0

\* a variant of the temporary instance that runs the constructor
TempSandboxConstructed(k) == [kind |-> k, sandbox_id |-> 0, requested |-> TRUE]

\* get_all_tools lines 309-316: sandbox_class.__new__ and _sandbox_id = None;
\* the constructor is not run, so the vendor is not asked
TempSandbox(k) == [kind |-> k, sandbox_id |-> 0, requested |-> FALSE]

\* get_all_tools: list_tools() of the handle in the slot, or of a temporary
\* instance when the slot is empty
GetAllTools ==
    [k \in Kinds |->
        IF sandboxes[k] # 0
        THEN [tools |-> ListTools(k, NoFilter).tools, requested |-> FALSE]
        ELSE LET temp_sandbox == TempSandbox(k) IN
             [tools |-> ListTools(temp_sandbox.kind, NoFilter).tools,
              requested |-> temp_sandbox.requested]]

\* get_sandbox_info: one entry per mapped id whose kind has a handle, one
\* entry per kind without a handle
SandboxInfoIdKeys ==
    {i \in Ids : /\ sandbox_id_to_type[i] # NoKind
                 /\ sandboxes[sandbox_id_to_type[i]] # 0}
SandboxInfoKindKeys == {k \in Kinds : sandboxes[k] = 0}

ReadOps ==
    {"get_sandbox", "get_sandbox_by_id", "get_sandbox_type_by_id",
     "get_all_tools", "get_sandbox_info"}

\* a read-only operation is called and its result recorded
ReadOperation ==
    /\ svc.pc # "in_callback"
    /\ \/ \E k \in ServiceKinds :
             svc' = [NoSvc EXCEPT !.op = "get_sandbox", !.kind = k,
                                  !.ret = GetSandbox(k)]
       \/ \E i \in QueryIds :
             svc' = [NoSvc EXCEPT !.op = "get_sandbox_by_id", !.id = i,
                                  !.ret = GetSandboxById(i)]
       \/ \E i \in QueryIds :
             svc' = [NoSvc EXCEPT !.op = "get_sandbox_type_by_id", !.id = i,
                                  !.kind = GetSandboxTypeById(i)]
       \/ svc' = [NoSvc EXCEPT
                    !.op = "get_all_tools",
                    !.counts = [k \in Kinds |-> Len(GetAllTools[k].tools)],
                    !.requested = \E k \in Kinds : GetAllTools[k].requested]
       \/ svc' = [NoSvc EXCEPT !.op = "get_sandbox_info",
                               !.idKeys = SandboxInfoIdKeys,
                               !.kindKeys = SandboxInfoKindKeys]
    /\ UNCHANGED <<mgrVars, agbVars, regVars, listed, brwVars, strVars>>

\* what create_sandbox returns once ensure_sandbox gave it the handle ret
\* (0 = None): the lookups by id are those of the moment it returns
CreateSandboxResult(k, ret, requested) ==
    [NoSvc EXCEPT !.op = "create_sandbox", !.pc = "done", !.kind = k,
                  !.requested = requested,
                  !.success = ret # 0, !.id = ret, !.ret = ret,
                  !.byId = GetSandboxById(ret),
                  !.typeById = GetSandboxTypeById(ret),
                  !.slot = GetSandbox(k)]

CreateSandboxRaised(k, requested) ==
    [NoSvc EXCEPT !.op = "create_sandbox", !.pc = "done", !.kind = k,
                  !.requested = requested, !.raised = TRUE]

\* AgentService.create_sandbox(sandbox_type) up to the await inside
\* ensure_sandbox: a kind outside the four is refused before ensure_sandbox
\* is called; the three named classes become a failure result, any other
\* class leaves create_sandbox
CreateSandboxStart ==
    /\ svc.pc # "in_callback"
    /\ \E k \in ServiceKinds, inp \in ConstructInputs :
          /\ inp = <<"ok", "ok">> => nextId <= MaxSessions
          /\ (k \notin Kinds \/ ExistingSandbox(k) # 0) => inp = <<"ok", "ok">>
          /\ IF k \notin Kinds
             THEN /\ svc' = CreateSandboxResult(k, 0, FALSE)
                  /\ UNCHANGED <<sandboxes, sandbox_id_to_type, nextId,
                                 sessKind, callbackCount, returned>>
             ELSE LET r == EnsureSandbox(k, inp) IN
                  /\ EnsureEffect(k, r)
                  /\ svc' =
                       IF r.created
                       THEN [NoSvc EXCEPT !.op = "create_sandbox",
                                          !.pc = "in_callback", !.kind = k,
                                          !.ret = r.ret, !.requested = TRUE]
                       ELSE IF r.exc # "none"
                       THEN IF Caught(r.exc, Catch3)
                            THEN CreateSandboxResult(k, 0, r.requested)
                            ELSE CreateSandboxRaised(k, r.requested)
                       ELSE CreateSandboxResult(k, r.ret, r.requested)
                  /\ returned' = IF ~r.created /\ r.ret # 0
                                 THEN [returned EXCEPT ![k] = r.ret]
                                 ELSE returned
    /\ UNCHANGED <<cleanups, task, last, agbVars, regVars, listed, brwVars,
                   strVars>>

\* the created-callback returns and create_sandbox goes on from line 341
CreateSandboxResume ==
    /\ svc.pc = "in_callback"
    /\ \E cb \in CallbackOutcomes :
          LET escaped == cb # "ok" /\ ~Caught(cb, Catch4) IN
          /\ svc' = IF escaped THEN CreateSandboxRaised(svc.kind, TRUE)
                    ELSE CreateSandboxResult(svc.kind, svc.ret, TRUE)
          /\ returned' = IF escaped THEN returned
                         ELSE [returned EXCEPT ![svc.kind] = svc.ret]
    /\ UNCHANGED <<sandboxes, sandbox_id_to_type, nextId, sessKind,
                   cleanups, callbackCount, task, last, agbVars, regVars,
                   listed, brwVars, strVars>>

\* ensure_sandbox called directly with a kind outside the four
EnsureUnknownKind ==
    /\ svc.pc # "in_callback"
    /\ LET r == EnsureSandbox(UnknownKind, <<"ok", "ok">>) IN
       /\ EnsureEffect(UnknownKind, r)
       /\ svc' = [NoSvc EXCEPT !.op = "ensure_unknown", !.pc = "done",
                               !.kind = UnknownKind, !.ret = r.ret,
                               !.requested = r.requested,
                               !.raised = r.exc # "none"]
    /\ UNCHANGED <<cleanups, task, last, returned, agbVars, regVars,
                   listed, brwVars, strVars>>

\* get_screenshot lines 416-421: the tool called for a sandbox type
ScreenshotTool(sandbox_type) ==
    CASE sandbox_type = "browser" -> "browser_screenshot"
      [] sandbox_type \in {"linux", "windows"} -> "screenshot"
      [] sandbox_type = "mobile" -> "mobile_screenshot"
      [] OTHER -> "none"

\* AgentService.get_screenshot(sandbox_id) with the vendor answering v
GetScreenshot ==
    /\ svc.pc # "in_callback"
    /\ \E i \in QueryIds, v \in VendorCallOutcomes :
          LET sandbox == GetSandboxById(i)
              sandbox_type == GetSandboxTypeById(i)
              T == ScreenshotTool(sandbox_type)
              res == CallTool(sandbox_type, T, v)
          IN
          /\ sandbox = 0 => v = "ok"
          /\ svc' =
               IF sandbox = 0 \/ T = "none"
               THEN [NoSvc EXCEPT !.op = "get_screenshot", !.pc = "done",
                                  !.id = i]
               ELSE [NoSvc EXCEPT
                       !.op = "get_screenshot", !.pc = "done", !.id = i,
                       !.ret = sandbox, !.kind = sandbox_type, !.tool = T,
                       !.shot = v = "ok",
                       !.success = res = "success",
                       !.raised = res \notin {"success", "failure"}
                                  /\ ~Caught(res, Catch3)]
    /\ UNCHANGED <<mgrVars, agbVars, regVars, listed, brwVars, strVars>>

\* the manager behind an AgentService: create_sandbox, get_screenshot,
\* ensure_sandbox with a kind outside the four and cleanup_all_sandboxes
NextService ==
    \/ CreateSandboxStart
    \/ CreateSandboxResume
    \/ EnsureUnknownKind
    \/ GetScreenshot
    \/ CleanupAllSandboxes

SpecService == Init /\ [][NextService]_vars

\* the read-only operations called in the states that create_sandbox,
\* initialize_all_sandboxes and cleanup_all_sandboxes lead to
NextRead ==
    \/ CreateSandboxStart
    \/ CreateSandboxResume
    \/ ReadOperation
    \/ InitializeAllSandboxes
    \/ CleanupAllSandboxes

SpecRead == Init /\ [][NextRead]_vars

----------------------------------------------------------------------------
(* Properties of the read-only operations and the AgentService calls *)

C14_UnknownKindRejected ==
    svc.op = "ensure_unknown" => (svc.raised /\ ~svc.requested)

\* C18: create_sandbox does not raise; a success result carries the id of the
\* handle in the slot of the kind, and the lookups by that id give that handle
\* and that kind
C18_CreateSandboxResult ==
    (svc.op = "create_sandbox" /\ svc.pc = "done") =>
        /\ ~svc.raised
        /\ svc.success =>
              /\ svc.id # 0
              /\ svc.slot = svc.id
              /\ svc.byId = svc.id
              /\ svc.typeById = svc.kind

\* C19: the screenshot tool get_screenshot calls is one the handle's kind
\* provides, and the call succeeds whenever the vendor's screenshot does
C19_ScreenshotToolProvided ==
    (svc.op = "get_screenshot" /\ svc.tool # "none") =>
        /\ svc.tool \in ToolMapping(svc.kind)
        /\ svc.shot => svc.success

----------------------------------------------------------------------------
(* ToolRegistry: building the toolkit from the capability tables *)

MaxRegisterRuns == 2

\* what Toolkit.register_tool_function does with a function name it already
\* holds: raise ValueError, replace the function, or raise an exception of a
\* class register_all_tools does not catch
ToolkitDuplicateOutcomes == {"ValueError", "override", "OSError"}

\* a variant of the naming rule that leaves the kind out
FullToolNameNoKind(sandbox_type, tool_name) == tool_name

\* f"{sandbox_type}_{tool_name}"
FullToolName(sandbox_type, tool_name) == sandbox_type \o "_" \o tool_name

\* tools_info.get("tools", []) of kind k as register_all_tools reads it from
\* get_all_tools(), with the entry dupEntry names listed a second time
CapabilityTable(k) ==
    LET tools == GetAllTools[k].tools IN
    IF dupEntry.kind = k THEN Append(tools, tools[dupEntry.idx]) ELSE tools

\* the (kind, tool) pairs in the order the two loops of register_all_tools
\* visit them, for the first n kinds
RECURSIVE RegistrationOrder(_)
RegistrationOrder(n) ==
    IF n = 0 THEN <<>>
    ELSE RegistrationOrder(n - 1) \o
         [i \in 1..Len(CapabilityTable(KindOrder[n])) |->
            [sandbox_type |-> KindOrder[n],
             tool_name |-> CapabilityTable(KindOrder[n])[i]]]

\* self.registered_tools[full_tool_name] = {...}: a dict assignment
PutRegistered(reg, name, sandbox_type, tool_name) ==
    {r \in reg : r.name # name} \cup
    {[name |-> name, sandbox_type |-> sandbox_type, tool_name |-> tool_name]}

\* one pass of the inner loop body for the pair p, from registry state s
RegisterOne(s, p, onDup) ==
    LET name == FullToolName(p.sandbox_type, p.tool_name) IN
    IF s.raised THEN s
    ELSE IF name \in s.toolkit /\ onDup = "ValueError"
    THEN \* caught at line 208: logged, continue
         [s EXCEPT !.met = @ \cup {name}]
    ELSE IF name \in s.toolkit /\ onDup = "OSError"
    THEN [s EXCEPT !.met = @ \cup {name}, !.raised = TRUE]
    ELSE [s EXCEPT
            !.met = IF name \in s.toolkit THEN @ \cup {name} ELSE @,
            !.toolkit = @ \cup {name},
            !.registered_tools =
                PutRegistered(@, name, p.sandbox_type, p.tool_name)]

\* the first n pairs of the loops, from registry state start
RECURSIVE RegisterTools(_, _, _, _)
RegisterTools(pairs, n, onDup, start) ==
    IF n = 0 THEN start
    ELSE RegisterOne(RegisterTools(pairs, n - 1, onDup, start), pairs[n],
                     onDup)

\* register_all_tools()
RegisterAllTools ==
    /\ regLast.run < MaxRegisterRuns
    /\ \E onDup \in ToolkitDuplicateOutcomes :
          LET pairs == RegistrationOrder(Len(KindOrder))
              start == [toolkit |-> toolkit,
                        registered_tools |-> registered_tools,
                        met |-> {}, raised |-> FALSE]
              end == RegisterTools(pairs, Len(pairs), onDup, start)
          IN /\ toolkit' = end.toolkit
             /\ registered_tools' = end.registered_tools
             /\ regLast' = [op |-> "register_all_tools",
                            run |-> regLast.run + 1,
                            raised |-> end.raised, met |-> end.met]
    /\ UNCHANGED <<mgrVars, agbVars, svc, dupEntry, listed, brwVars,
                   strVars>>

\* a registry over a fresh manager; at most one entry of one capability
\* table is listed twice
DupEntries ==
    {NoDup} \cup
    UNION {{[kind |-> k, idx |-> i] :
                i \in 1..Len(ListTools(k, NoFilter).tools)} : k \in Kinds}

InitRegistrySpec ==
    /\ InitManager
    /\ IdleTasks
    /\ InitNoAgb
    /\ InitSvc
    /\ InitRegistry
    /\ listed = NoListed
    /\ InitNoBrowser
    /\ InitNoStream
    /\ dupEntry \in DupEntries

NextRegistry == RegisterAllTools

SpecRegistry == InitRegistrySpec /\ [][NextRegistry]_vars

\* C12: after one register_all_tools on a fresh registry every (kind, tool)
\* pair of the capability tables is registered under its full name exactly
\* once, no two pairs share a full name, and registered_tools has exactly one
\* entry per pair, with the pair's kind and tool name
C12_EveryToolRegisteredOnce ==
    (regLast.op = "register_all_tools" /\ regLast.run = 1 /\ dupEntry = NoDup)
    =>
    LET pairs == RegistrationOrder(Len(KindOrder)) IN
    /\ ~regLast.raised
    /\ regLast.met = {}
    /\ Cardinality(toolkit) = Len(pairs)
    /\ Cardinality(registered_tools) = Len(pairs)
    /\ \A i \in 1..Len(pairs) :
          LET K == pairs[i].sandbox_type
              T == pairs[i].tool_name
          IN /\ (K \o "_" \o T) \in toolkit
             /\ \E r \in registered_tools :
                   /\ r.name = K \o "_" \o T
                   /\ r.sandbox_type = K
                   /\ r.tool_name = T
                   /\ \A q \in registered_tools : q.name = r.name => q = r
    /\ \A i, j \in 1..Len(pairs) :
          i # j => (pairs[i].sandbox_type \o "_" \o pairs[i].tool_name)
                   # (pairs[j].sandbox_type \o "_" \o pairs[j].tool_name)

C12_Witness ==
    /\ regLast.op = "register_all_tools"
    /\ regLast.run = 1
    /\ dupEntry = NoDup
    /\ "linux_read_file" \in toolkit
    /\ "windows_read_file" \in toolkit
    /\ Cardinality(registered_tools) = 42

\* C13: a register_all_tools that meets a full name the toolkit already
\* holds fails with an error
C13_DuplicateFailsFast ==
    (regLast.op = "register_all_tools" /\ regLast.met # {}) => regLast.raised

----------------------------------------------------------------------------
(* list_tools called on a handle of every AgentBay kind *)

\* the filters a caller passes: none, every category name of the five
\* kinds, and two names no kind has
ToolTypes ==
    {NoFilter, "file", "command", "desktop", "system", "browser", "agent",
     "ui", "app", "code", "network", "unknown"}

\* sandbox.list_tools(tool_type)
ListToolsCall ==
    /\ ~listed.called
    /\ listed.kind # NoKind
    /\ LET result == ListTools(listed.kind, listed.tool_type) IN
       listed' = [listed EXCEPT
                    !.called = TRUE,
                    !.tools = result.tools,
                    !.total_count = result.total_count,
                    !.tools_by_type =
                        IF listed.tool_type = NoFilter
                        THEN ToolsByType(listed.kind) ELSE <<>>]
    /\ UNCHANGED <<mgrVars, agbVars, svc, regVars, brwVars, strVars>>

InitListTools ==
    /\ InitManager
    /\ IdleTasks
    /\ InitNoAgb
    /\ InitSvc
    /\ InitRegistry
    /\ InitNoBrowser
    /\ InitNoStream
    /\ dupEntry = NoDup
    /\ \E k \in AgentbayKinds, t \in ToolTypes :
          listed = [NoListed EXCEPT !.kind = k, !.tool_type = t]

NextListTools == ListToolsCall

SpecListTools == InitListTools /\ [][NextListTools]_vars

\* C20: list_tools() returns exactly the keys of _get_tool_mapping(), each
\* once, with total_count their number; the categories of tools_by_type are
\* pairwise disjoint and add up to the full list; list_tools(tool_type=t)
\* returns the tools of category t, and nothing for a t that is no category
C20_ListToolsMatchesMapping ==
    listed.called =>
        LET cats == ToolsByType(listed.kind)
            SeqSet(q) == {q[i] : i \in 1..Len(q)}
        IN
        /\ listed.total_count = Len(listed.tools)
        /\ listed.tool_type = NoFilter =>
              /\ SeqSet(listed.tools) = ToolMapping(listed.kind)
              /\ Len(listed.tools) = Cardinality(ToolMapping(listed.kind))
              /\ \A i, j \in 1..Len(listed.tools_by_type) :
                    i # j => /\ listed.tools_by_type[i].type
                                  # listed.tools_by_type[j].type
                             /\ SeqSet(listed.tools_by_type[i].tools) \cap
                                SeqSet(listed.tools_by_type[j].tools) = {}
              /\ UNION {SeqSet(listed.tools_by_type[i].tools) :
                           i \in 1..Len(listed.tools_by_type)}
                 = SeqSet(listed.tools)
        /\ listed.tool_type # NoFilter =>
              /\ \A i \in 1..Len(cats) :
                    cats[i].type = listed.tool_type
                        => listed.tools = cats[i].tools
              /\ (\A i \in 1..Len(cats) : cats[i].type # listed.tool_type)
                    => (listed.tools = <<>> /\ listed.total_count = 0)

C20_Witness ==
    /\ listed.called
    /\ listed.kind = "windows"
    /\ listed.tool_type = "desktop"
    /\ listed.total_count = 5

----------------------------------------------------------------------------
(* cleanup() of an AgbSandbox *)

\* C15: a cleanup() on a handle with a session sends the vendor exactly one
\* delete, for that session, and clears the session and its info whether or
\* not the delete raises; a cleanup() on a handle without a session calls
\* nothing and changes nothing; no session is ever sent a second delete
C15_CleanupIdempotent ==
    /\ [](\A i \in 1..MaxAgbSessions : agbDeletes[i] <= 1)
    /\ [][AgbCleanup =>
            IF agb_session # 0
            THEN /\ agbDeletes' =
                       [agbDeletes EXCEPT ![agb_session] = @ + 1]
                 /\ agb_session' = 0
                 /\ agb_session_info' = NoInfo
                 /\ agbLive' \in {agbLive, agbLive \ {agb_session}}
                 /\ ~agbLast'.raised
            ELSE /\ UNCHANGED <<agb_client, agb_session, agb_session_info,
                                agb_image_id, agbNextId, agbLive, agbDeletes>>
                 /\ ~agbLast'.raised]_vars

\* a second cleanup() has run on a handle whose session was sent a delete
\* that raised
C15_Witness ==
    /\ agbLast.op = "cleanup"
    /\ agbCleaned
    /\ agb_session = 0
    /\ \E i \in 1..MaxAgbSessions : agbDeletes[i] = 1 /\ i \in agbLive

----------------------------------------------------------------------------
(* AgentbayBrowserSandbox: the browser tools behind call_tool *)

\* asyncio.get_event_loop() in the calling thread: a running loop, a loop
\* that is not running, or no loop (RuntimeError)
LoopStates == {"running", "idle", "none"}

\* what the vendor's initialize / initialize_async does
BrowserInitOutcomes == {"ok", "false", "RuntimeError", "OSError"}

\* what a vendor act / navigate call does: a result that reports success, a
\* result that reports failure, or an exception
BrowserOpOutcomes ==
    {"ok", "fail", "RuntimeError", "AttributeError", "ValueError", "OSError"}

\* what a second act / navigate call, made after the first one raised, does
BrowserRetryOutcomes == {"ok", "RuntimeError", "OSError"}

\* _get_navigation_result: browser.browser_navigate, else browser.call_tool,
\* else nothing
BrowserNavMethods == {"browser_navigate", "call_tool", "none"}

\* the browser tools called in the model
BrowserCallNames ==
    {"browser_navigate", "browser_click", "browser_input",
     "browser_agent_navigate", "browser_agent_act"}

\* lines 135-161: initialize(option) when the loop is running, else
\* run_until_complete(initialize_async(option)); a missing loop is replaced
\* by a new one
BrowserInitialize(b, loop, io) ==
    LET loop1 == IF loop = "none" THEN "idle" ELSE loop IN
    IF loop1 = "running" /\ ~b.has_initialize
    THEN [b |-> b, ok |-> FALSE, exc |-> "none", initCalls |-> 0,
          loop |-> loop1]
    ELSE IF io = "ok"
    THEN [b |-> [b EXCEPT !.initialized = TRUE], ok |-> TRUE,
          exc |-> "none", initCalls |-> 1, loop |-> loop1]
    ELSE IF io = "false" \/ io \in Catch4
    THEN [b |-> b, ok |-> FALSE, exc |-> "none", initCalls |-> 1,
          loop |-> loop1]
    ELSE [b |-> b, ok |-> FALSE, exc |-> io, initCalls |-> 1, loop |-> loop1]

\* _ensure_browser_initialized(session)
EnsureBrowserInitialized(b, loop, io) ==
    IF b.has_is_initialized
    THEN IF b.initialized
         THEN [b |-> b, ok |-> TRUE, exc |-> "none", initCalls |-> 0,
               loop |-> loop]
         ELSE BrowserInitialize(b, loop, io)
    ELSE IF b.has_agent
         THEN \* "_ = session.browser.agent; return True"
              [b |-> b, ok |-> TRUE, exc |-> "none", initCalls |-> 0,
               loop |-> loop]
         ELSE BrowserInitialize(b, loop, io)

\* the result of a handler: the vendor's browser afterwards, the success
\* field of the dict, the exception that leaves the handler, and the vendor
\* calls made
HandlerResult(e, success, exc, opCalls, opOk) ==
    [b |-> e.b, success |-> success, exc |-> exc,
     initCalls |-> e.initCalls, initOk |-> e.ok /\ e.initCalls > 0,
     opCalls |-> opCalls, opOk |-> opOk,
     opUninit |-> opCalls > 0 /\ ~e.b.initialized]

\* _browser_navigate with _get_navigation_result and
\* _process_navigation_result
BrowserNavigate(b, loop, io, v) ==
    LET e == EnsureBrowserInitialized(b, loop, io) IN
    IF e.exc # "none" THEN HandlerResult(e, FALSE, e.exc, 0, FALSE)
    ELSE IF ~e.ok THEN HandlerResult(e, FALSE, "none", 0, FALSE)
    ELSE IF e.b.nav = "none" THEN HandlerResult(e, FALSE, "none", 0, FALSE)
    ELSE IF v = "ok" THEN HandlerResult(e, TRUE, "none", 1, TRUE)
    ELSE IF v = "fail" THEN HandlerResult(e, FALSE, "none", 1, FALSE)
    ELSE HandlerResult(e, FALSE, v, 1, FALSE)

\* the dict built from the result of the last act call, or the outer
\* except clause of _browser_click / _browser_input
ActOutcome(e, v, opCalls) ==
    IF v = "ok" THEN HandlerResult(e, TRUE, "none", opCalls, TRUE)
    ELSE IF v = "fail" \/ v \in Catch4
    THEN HandlerResult(e, FALSE, "none", opCalls, FALSE)
    ELSE HandlerResult(e, FALSE, v, opCalls, FALSE)

\* _browser_click and _browser_input: act through the agent; the inner
\* except clause calls agent.act again
BrowserAct(b, loop, io, v1, v2) ==
    LET e == EnsureBrowserInitialized(b, loop, io) IN
    IF e.exc # "none" THEN HandlerResult(e, FALSE, e.exc, 0, FALSE)
    ELSE IF ~e.ok THEN HandlerResult(e, FALSE, "none", 0, FALSE)
    ELSE IF ~e.b.has_agent THEN HandlerResult(e, FALSE, "none", 0, FALSE)
    ELSE IF e.loop = "none" THEN ActOutcome(e, v1, 1)
    ELSE IF v1 \in {"RuntimeError", "AttributeError"}
    THEN ActOutcome(e, v2, 2)
    ELSE ActOutcome(e, v1, 1)

\* the dict _browser_agent_navigate builds: success is always True
AgentNavigateOutcome(e, v, opCalls) ==
    IF v \in {"ok", "fail"}
    THEN HandlerResult(e, TRUE, "none", opCalls, v = "ok")
    ELSE IF v \in Catch4 THEN HandlerResult(e, FALSE, "none", opCalls, FALSE)
    ELSE HandlerResult(e, FALSE, v, opCalls, FALSE)

\* _browser_agent_navigate
BrowserAgentNavigate(b, loop, io, v1, v2) ==
    LET e == EnsureBrowserInitialized(b, loop, io)
        sync(v, n) == IF e.b.has_navigate THEN AgentNavigateOutcome(e, v, n)
                      ELSE HandlerResult(e, FALSE, "none", n - 1, FALSE)
    IN
    IF e.exc # "none" THEN HandlerResult(e, FALSE, e.exc, 0, FALSE)
    ELSE IF ~e.ok THEN HandlerResult(e, FALSE, "none", 0, FALSE)
    ELSE IF ~e.b.has_agent THEN HandlerResult(e, FALSE, "none", 0, FALSE)
    ELSE IF e.loop = "none" THEN sync(v1, 1)
    ELSE IF e.loop = "running" /\ ~e.b.has_navigate
    THEN HandlerResult(e, FALSE, "none", 0, FALSE)
    ELSE IF v1 \in {"RuntimeError", "AttributeError"} THEN sync(v2, 2)
    ELSE AgentNavigateOutcome(e, v1, 1)

\* _browser_agent_act: one act call, nothing caught in the handler
BrowserAgentAct(b, v) ==
    LET e == [b |-> b, ok |-> TRUE, initCalls |-> 0] IN
    IF ~b.has_agent THEN HandlerResult(e, FALSE, "AttributeError", 0, FALSE)
    ELSE IF v = "ok" THEN HandlerResult(e, TRUE, "none", 1, TRUE)
    ELSE IF v = "fail" THEN HandlerResult(e, FALSE, "none", 1, FALSE)
    ELSE HandlerResult(e, FALSE, v, 1, FALSE)

\* the handler the tool mapping gives for the name
BrowserHandler(name, b, loop, io, v1, v2) ==
    CASE name = "browser_navigate" -> BrowserNavigate(b, loop, io, v1)
      [] name \in {"browser_click", "browser_input"} ->
            BrowserAct(b, loop, io, v1, v2)
      [] name = "browser_agent_navigate" ->
            BrowserAgentNavigate(b, loop, io, v1, v2)
      [] name = "browser_agent_act" -> BrowserAgentAct(b, v1)

\* call_tool(name, arguments) of the browser handle: _call_cloud_tool runs
\* the handler and turns the four caught classes into a failure dict
BrowserCallTool ==
    \E name \in BrowserCallNames, loop \in LoopStates,
       io \in BrowserInitOutcomes, v1 \in BrowserOpOutcomes,
       v2 \in BrowserRetryOutcomes :
       LET h == BrowserHandler(name, browser, loop, io, v1, v2) IN
       /\ browser' = h.b
       /\ brwLast' = [tool |-> name,
                      success |-> h.exc = "none" /\ h.success,
                      raised |-> h.exc \notin (Catch4 \cup {"none"}),
                      initCalls |-> h.initCalls, initOk |-> h.initOk,
                      opCalls |-> h.opCalls, opOk |-> h.opOk,
                      wasInitialized |-> browser.initialized,
                      opUninit |-> h.opUninit]
       /\ UNCHANGED <<mgrVars, agbVars, svc, regVars, listed, strVars>>

\* a browser handle over every shape of session.browser the handlers
\* provide for, the vendor's browser not initialized
InitBrowserSpec ==
    /\ InitManager
    /\ IdleTasks
    /\ InitNoAgb
    /\ InitSvc
    /\ InitRegistry
    /\ dupEntry = NoDup
    /\ listed = NoListed
    /\ InitNoStream
    /\ brwLast = NoBrw
    /\ \E i, a, s, n \in BOOLEAN, nav \in BrowserNavMethods :
          browser = [has_is_initialized |-> i, has_agent |-> a,
                     has_initialize |-> s, nav |-> nav,
                     has_navigate |-> n, initialized |-> FALSE]

NextBrowser == BrowserCallTool

SpecBrowser == InitBrowserSpec /\ [][NextBrowser]_vars

\* C16: a call_tool issues its vendor operation (act, navigate) at most once
C16_SingleAttempt ==
    brwLast.tool # "none" => brwLast.opCalls <= 1

\* C17: browser_navigate on an uninitialized browser initializes it before
\* navigating; the navigation is never issued on an uninitialized browser;
\* a failed initialization gives success false and no navigation; when both
\* succeed the result has success true
C17_NavigateInitializesFirst ==
    brwLast.tool = "browser_navigate" =>
        /\ ~brwLast.opUninit
        /\ (~brwLast.wasInitialized /\ brwLast.opCalls > 0)
              => (brwLast.initCalls = 1 /\ brwLast.initOk)
        /\ (brwLast.initCalls > 0 /\ ~brwLast.initOk)
              => (~brwLast.success /\ brwLast.opCalls = 0)
        /\ (brwLast.initOk /\ brwLast.opOk) => brwLast.success

----------------------------------------------------------------------------
(* The manager: initialize_all_sandboxes, lookups by id, the callback *)

\* C21: initialize_all_sandboxes returns True exactly when all four kinds
\* have been initialized
C21_InitializeAllReturnsAll ==
    (last.op = "initialize_all" /\ ~last.raised) =>
        (last.success <=> \A k \in Kinds : sandboxes[k] # 0)

\* C22: a handle that get_sandbox_by_id(id) returns has the id asked for
C22_LookupByIdGivesThatId ==
    \A i \in QueryIds : GetSandboxById(i) # 0 => GetSandboxById(i) = i

\* C23: every kind with a live handle is found by the handle's id, maps back
\* to its kind, and has exactly one entry in get_sandbox_info, keyed by an id
C23_LiveHandleRetrievable ==
    \A k \in Kinds :
        sandboxes[k] # 0 =>
            /\ GetSandboxById(sandboxes[k]) = sandboxes[k]
            /\ GetSandboxTypeById(sandboxes[k]) = k
            /\ Cardinality({i \in SandboxInfoIdKeys :
                               sandbox_id_to_type[i] = k}) = 1
            /\ k \notin SandboxInfoKindKeys

\* C24: the sandbox-created callback fires exactly once for a session that
\* ensure_sandbox creates, when the handle is in its slot and in the id map,
\* and not at all for an ensure_sandbox that creates nothing; whatever the
\* callback does, ensure_sandbox returns the handle it created and the id
\* stays mapped to its kind
C24_CallbackOncePerCreation ==
    /\ [][last'.op = "ensure" =>
             IF last'.created
             THEN /\ callbackCount' =
                        [callbackCount EXCEPT ![last'.ret] = 1]
                  /\ sandboxes'[last'.kind] = last'.ret
                  /\ sandbox_id_to_type'[last'.ret] = last'.kind
             ELSE UNCHANGED callbackCount]_vars
    /\ [](last.op = "ensure_return" =>
             /\ ~last.raised
             /\ last.ret # 0
             /\ callbackCount[last.ret] = 1
             /\ sandbox_id_to_type[last.ret] = last.kind)

----------------------------------------------------------------------------
(* One /api/chat/stream response: generate() and _process_stream_tasks *)

MaxChunks == 2
MaxEvents == 3

\* the items a response emits
MsgItem(n) == [t |-> "msg", n |-> n]
EvtItem(e) == [t |-> "evt", n |-> e]
DoneItem == [t |-> "done", n |-> 0]
ErrorItem == [t |-> "error", n |-> 0]

\* the yields of generate(): the consumer sends the chunk and resumes the
\* generator, at once or after the send has waited for the client
StreamYields == {"msg_yielded", "evt_yielded", "rem_yielded"}

\* a task is done (Task.done())
MsgDone(st) == st.msgTask \in {"chunk", "stop", "error"}
EvtDone(st) == st.evtTask = "done"

\* a yield: the generator goes on at once (running) or is resumed by the
\* event loop after the send has completed
Yield(st, pc, susp) == [st EXCEPT !.pc = pc, !.running = ~susp]

\* asyncio.wait(tasks, FIRST_COMPLETED): a done-callback is added to every
\* task of the set, which the loop calls soon for a task that is done
\* already; the caller is suspended until a callback wakes it
Wait(st) ==
    LET cbM == IF MsgDone(st) THEN <<"cb">> ELSE <<>>
        cbE == IF EvtDone(st) THEN <<"cb">> ELSE <<>>
    IN [st EXCEPT !.pc = "wait", !.running = FALSE, !.woken = FALSE,
                  !.ready = @ \o cbM \o cbE]

\* _process_remaining_events and what follows it in generate(): while the
\* queue is not empty one event is taken from it and yielded; on an empty
\* queue "data: [DONE]" is yielded and the generator ends
ProcessRemainingEvents(st, susp) ==
    IF st.queue # <<>>
    THEN Yield([st EXCEPT !.out = Append(@, EvtItem(Head(st.queue))),
                          !.queue = Tail(@)], "rem_yielded", susp)
    ELSE [st EXCEPT !.out = Append(@, DoneItem), !.pc = "closed",
                    !.running = FALSE]

\* _handle_event_task: the payload the finished event task holds is yielded
HandleEventTask(st, susp) ==
    Yield([st EXCEPT !.out = Append(@, EvtItem(st.held))], "evt_yielded",
          susp)

\* the end of one pass of the loop of _process_stream_tasks: break when the
\* message stream has finished, else wait again
EndOfPass(st, susp) ==
    IF st.stream_finished /\ st.msgTask = "none"
    THEN ProcessRemainingEvents(st, susp)
    ELSE Wait(st)

\* asyncio.wait has returned: the pass runs with the set of tasks done at
\* this moment, up to its first yield
AfterWait(st, susp) ==
    CASE st.msgTask = "chunk" ->
           \* the chunk is yielded, the next anext() task is created
           Yield([st EXCEPT !.out = Append(@, MsgItem(st.produced)),
                            !.msgTask = "ready",
                            !.ready = Append(@, "M"),
                            !.evtInDone = EvtDone(st)],
                 "msg_yielded", susp)
      [] st.msgTask = "error" ->
           [st EXCEPT !.out = Append(@, ErrorItem), !.msgTask = "none",
                      !.pc = "closed", !.running = FALSE]
      [] st.msgTask = "stop" ->
           LET st1 == [st EXCEPT !.stream_finished = TRUE,
                                 !.msgTask = "none"] IN
           IF EvtDone(st) THEN HandleEventTask(st1, susp)
           ELSE EndOfPass(st1, susp)
      [] OTHER -> HandleEventTask(st, susp)

\* the generator goes on from the place it was suspended at
Resume(st, susp) ==
    CASE st.pc = "wait" -> AfterWait(st, susp)
      [] st.pc = "msg_yielded" ->
           IF st.evtInDone THEN HandleEventTask(st, susp)
           ELSE EndOfPass(st, susp)
      [] st.pc = "evt_yielded" ->
           \* current_event_task = asyncio.create_task(event_queue.get())
           EndOfPass([st EXCEPT !.evtTask = "ready", !.held = 0,
                                !.ready = Append(@, "E")], susp)
      [] st.pc = "rem_yielded" -> ProcessRemainingEvents(st, susp)

StreamFrame ==
    UNCHANGED <<mgrVars, agbVars, svc, regVars, listed, brwVars, lsn>>

\* generate() is iterated for the first time: both tasks are created and the
\* loop of _process_stream_tasks reaches asyncio.wait
GenerateStart ==
    /\ stream.pc = "idle"
    /\ stream' = Wait([stream EXCEPT !.msgTask = "ready",
                                     !.evtTask = "ready",
                                     !.ready = <<"M", "E">>])
    /\ StreamFrame

\* the generator runs on: straight after a yield whose send did not wait,
\* or when the event loop reaches its wake-up
GenerateResume ==
    /\ \/ /\ stream.running
          /\ \E susp \in BOOLEAN : stream' = Resume(stream, susp)
       \/ /\ ~stream.running
          /\ stream.ready # <<>>
          /\ Head(stream.ready) = "main"
          /\ \E susp \in BOOLEAN :
                stream' = Resume([stream EXCEPT !.ready = Tail(@)], susp)
    /\ StreamFrame

\* the send of a yielded chunk completes: the loop will resume the generator
SendCompletes ==
    /\ stream.pc \in StreamYields
    /\ ~stream.running
    /\ \A i \in 1..Len(stream.ready) : stream.ready[i] # "main"
    /\ stream' = [stream EXCEPT !.ready = Append(@, "main")]
    /\ StreamFrame

\* the loop runs the task of anext(message_stream): the agent waits for
\* something outside, gives the next chunk, or the message stream ends,
\* normally or with an exception; a finished task calls its done-callback
RunMessageTask ==
    /\ ~stream.running
    /\ stream.ready # <<>>
    /\ Head(stream.ready) = "M"
    /\ LET cb == IF stream.pc = "wait" THEN <<"cb">> ELSE <<>> IN
       \/ stream' = [stream EXCEPT !.ready = Tail(@), !.msgTask = "io"]
       \/ /\ stream.produced < MaxChunks
          /\ stream' = [stream EXCEPT !.ready = Tail(@) \o cb,
                                      !.msgTask = "chunk",
                                      !.produced = @ + 1]
       \/ \E how \in {"stop", "error"} :
             stream' = [stream EXCEPT !.ready = Tail(@) \o cb,
                                      !.msgTask = how, !.ended = TRUE]
    /\ StreamFrame

\* what the agent waited for has arrived: the message task can run again
MessageIoCompletes ==
    /\ stream.msgTask = "io"
    /\ stream' = [stream EXCEPT !.msgTask = "ready",
                                !.ready = Append(@, "M")]
    /\ StreamFrame

\* the loop runs the task of event_queue.get(): it takes the first item of
\* the queue and is done, or waits for a put on an empty queue
RunEventTask ==
    /\ ~stream.running
    /\ stream.ready # <<>>
    /\ Head(stream.ready) = "E"
    /\ LET cb == IF stream.pc = "wait" THEN <<"cb">> ELSE <<>> IN
       IF stream.queue # <<>>
       THEN stream' = [stream EXCEPT !.ready = Tail(@) \o cb,
                                     !.evtTask = "done",
                                     !.held = Head(stream.queue),
                                     !.queue = Tail(@)]
       ELSE stream' = [stream EXCEPT !.ready = Tail(@),
                                     !.evtTask = "waiting"]
    /\ StreamFrame

\* the loop runs a done-callback of asyncio.wait: the first one wakes the
\* waiting generator
RunDoneCallback ==
    /\ ~stream.running
    /\ stream.ready # <<>>
    /\ Head(stream.ready) = "cb"
    /\ stream' = IF stream.pc = "wait" /\ ~stream.woken
                 THEN [stream EXCEPT !.ready = Append(Tail(@), "main"),
                                     !.woken = TRUE]
                 ELSE [stream EXCEPT !.ready = Tail(@)]
    /\ StreamFrame

\* _emit_event puts a sandbox event on the queue of the response, before
\* the message stream has ended; a put wakes the task that waits in get()
PutEvent ==
    /\ stream.pc # "idle"
    /\ ~stream.running
    /\ ~stream.ended
    /\ stream.put < MaxEvents
    /\ stream' = [stream EXCEPT
                    !.queue = Append(@, stream.put + 1),
                    !.put = @ + 1,
                    !.evtTask = IF @ = "waiting" THEN "ready" ELSE @,
                    !.ready = IF stream.evtTask = "waiting"
                              THEN Append(@, "E") ELSE @]
    /\ StreamFrame

NextStream ==
    \/ GenerateStart
    \/ GenerateResume
    \/ SendCompletes
    \/ RunMessageTask
    \/ MessageIoCompletes
    \/ RunEventTask
    \/ RunDoneCallback
    \/ PutEvent

SpecStream == Init /\ [][NextStream]_vars

\* C25: the message chunks are emitted in the order the agent produced
\* them; nothing is emitted twice; when the message stream has ended without
\* an error and the response is complete, every chunk and every event put on
\* the queue has been emitted, and [DONE] is the last item
C25_StreamEmitsEverything ==
    LET out == stream.out
        Count(x) == Cardinality({i \in 1..Len(out) : out[i] = x})
    IN
    /\ \A i, j \in 1..Len(out) :
          (i < j /\ out[i].t = "msg" /\ out[j].t = "msg")
              => out[i].n < out[j].n
    /\ \A i, j \in 1..Len(out) : i # j => out[i] # out[j]
    /\ (stream.pc = "closed" /\ stream.stream_finished) =>
          /\ \A n \in 1..stream.produced : Count(MsgItem(n)) = 1
          /\ \A e \in 1..stream.put : Count(EvtItem(e)) = 1
          /\ Count(DoneItem) = 1
          /\ out[Len(out)] = DoneItem

----------------------------------------------------------------------------
(* The event listeners of the service and the /api/chat/stream requests *)

MaxEmits == 2

\* register_event_listener: the queue is appended unless it is in the list
RegisterEventListener(listeners, q) ==
    IF \E i \in 1..Len(listeners) : listeners[i] = q
    THEN listeners
    ELSE Append(listeners, q)

\* unregister_event_listener: list.remove takes the first occurrence out
UnregisterEventListener(listeners, q) ==
    IF \E i \in 1..Len(listeners) : listeners[i] = q
    THEN LET k == CHOOSE i \in 1..Len(listeners) :
                    /\ listeners[i] = q
                    /\ \A j \in 1..(i - 1) : listeners[j] # q
         IN SubSeq(listeners, 1, k - 1)
                \o SubSeq(listeners, k + 1, Len(listeners))
    ELSE listeners

ListenerFrame ==
    UNCHANGED <<mgrVars, agbVars, svc, regVars, listed, brwVars, stream>>

\* chat_stream, the request handler: 503 when the service is not there or
\* not initialized; else the queue of the request is made and registered
\* and the response is returned with the generator not yet run
ChatStreamRequest(r, initialized) ==
    /\ lsn.phase[r] = "none"
    /\ IF ~initialized
       THEN lsn' = [lsn EXCEPT !.phase[r] = "refused"]
       ELSE lsn' = [lsn EXCEPT
                      !.listeners = RegisterEventListener(@, r),
                      !.phase[r] = "registered"]
    /\ ListenerFrame

\* the response is iterated: generate() runs into its try block
GeneratorStarts(r) ==
    /\ lsn.phase[r] = "registered"
    /\ lsn' = [lsn EXCEPT !.phase[r] = "running"]
    /\ ListenerFrame

\* generate() ends, by its last yield, by an exception or by a
\* cancellation: the finally block calls _cleanup_tasks
GeneratorFinishes(r) ==
    /\ lsn.phase[r] = "running"
    /\ \E how \in {"completed", "error", "cancelled"} :
          lsn' = [lsn EXCEPT
                    !.listeners = UnregisterEventListener(@, r),
                    !.phase[r] = how]
    /\ ListenerFrame

\* the response is given up before its body is iterated (the client has
\* gone): the generator is closed without having run, so no line of
\* generate(), its finally block included, is executed
ResponseDropped(r) ==
    /\ lsn.phase[r] = "registered"
    /\ lsn' = [lsn EXCEPT !.phase[r] = "dropped"]
    /\ ListenerFrame

\* _emit_event: nothing without listeners; else the payload is put on every
\* queue of a copy of the list (the queues are unbounded: put does not wait)
EmitEvent ==
    /\ lsn.emitted < MaxEmits
    /\ lsn' = [lsn EXCEPT
                 !.emitted = @ + 1,
                 !.got = [r \in Requests |->
                            LET n == Cardinality(
                                       {i \in 1..Len(lsn.listeners) :
                                            lsn.listeners[i] = r})
                            IN IF n = 0 THEN @[r]
                               ELSE IF n = 1
                               THEN Append(@[r], lsn.emitted + 1)
                               ELSE @[r] \o <<lsn.emitted + 1,
                                               lsn.emitted + 1>>]]
    /\ ListenerFrame

NextListeners ==
    \/ \E r \in Requests, initialized \in BOOLEAN :
          ChatStreamRequest(r, initialized)
    \/ \E r \in Requests : GeneratorStarts(r)
    \/ \E r \in Requests : GeneratorFinishes(r)
    \/ \E r \in Requests : ResponseDropped(r)
    \/ EmitEvent

SpecListeners == Init /\ [][NextListeners]_vars

\* C26: the queue of a request is in the listener list at most once, and
\* only while the request is under way: never before the request, and never
\* after its response is over, whether the generator completed, failed, was
\* cancelled or was closed without having run; every emit puts the event
\* exactly once on each queue registered at that time and on no other
C26_ListenersFollowRequests ==
    /\ [](\A r \in Requests :
            LET n == Cardinality({i \in 1..Len(lsn.listeners) :
                                     lsn.listeners[i] = r})
            IN /\ n <= 1
               /\ n = 1 => lsn.phase[r] \in {"registered", "running"})
    /\ [][lsn'.emitted # lsn.emitted =>
            \A r \in Requests :
                lsn'.got[r] =
                    IF \E i \in 1..Len(lsn.listeners) : lsn.listeners[i] = r
                    THEN Append(lsn.got[r], lsn'.emitted)
                    ELSE lsn.got[r]]_vars

----------------------------------------------------------------------------
(* The session of an AgbSandbox *)

\* C27: the sessions of the handle that are live at the vendor are at most
\* one, the one the handle holds; a session is created only when none of
\* them is live, so a session replaced by initialize_browser has been
\* deleted before; _agb_session is None exactly when _agb_session_info is
C27_OneLiveSession ==
    /\ [](agbLive \subseteq {agb_session} /\ Cardinality(agbLive) <= 1)
    /\ [](agb_session = 0 <=> agb_session_info = NoInfo)
    /\ [][agbNextId' # agbNextId =>
            /\ agbNextId' = agbNextId + 1
            /\ agbLive' = {agbNextId}
            /\ agb_session' = agbNextId]_vars

\* C28: a call_tool with a name that list_tools() returns does not raise:
\* it is dispatched to an operation and gives a result
C28_ListedToolsAccepted ==
    (/\ agbLast.op = "call_tool"
     /\ \E i \in 1..Len(AgbListTools) : AgbListTools[i] = agbLast.name)
        => ~agbLast.raised

----------------------------------------------------------------------------
(* _create_agb_session called directly, as the unit tests do *)

\* _create_agb_session(image_id): image_id or the image of the handle
AgbCreateSession ==
    \E image \in AgbImages \cup {"none"}, co \in AgbCreateOutcomes :
       /\ AgbInputsOk(co)
       /\ LET target == IF image = "none" THEN agb_image_id ELSE image
              r == CreateAgbSession(AgbState, target, co) IN
          AgbStep("create_session", target,
                  [st |-> r.st, success |-> r.ok, error |-> "none",
                   raised |-> FALSE])
       /\ UNCHANGED <<mgrVars, extVars, agbCleaned>>

NextAgbCreate ==
    \/ AgbCreateSession
    \/ AgbInitializeBrowser
    \/ AgbCleanup

SpecAgbCreate == InitAgbSpec /\ [][NextAgbCreate]_vars

\* C29: _create_agb_session never raises; it returns True exactly when the
\* vendor has made a session, and then the handle holds that session and an
\* info with its id, the requested image and status active; when it returns
\* False, _agb_session and _agb_session_info are what they were before
C29_CreateSessionAllOrNothing ==
    [][AgbCreateSession =>
         /\ ~agbLast'.raised
         /\ agbLast'.success <=> agbNextId' = agbNextId + 1
         /\ IF agbLast'.success
            THEN /\ agb_session' = agbNextId
                 /\ agb_session_info' =
                        [session_id |-> agbNextId,
                         image_id |-> agbLast'.name,
                         status |-> "active", endpoint_url |-> FALSE]
                 /\ agbNextId \in agbLive'
            ELSE UNCHANGED <<agb_session, agb_session_info, agbNextId,
                             agbLive>>]_vars

\* the vendor did not give a session to a handle that holds one, and the
\* handle still holds it
C29_Witness ==
    /\ agbLast.op = "create_session"
    /\ ~agbLast.success
    /\ agb_client
    /\ agb_session # 0
    /\ agb_session_info.status = "active"

----------------------------------------------------------------------------
(* An AgbSandbox without an API key *)

\* C30: a handle without a client never holds a session, and none of its
\* operations calls the vendor; is_available() is false, and each of the six
\* session methods returns success false with an error text and does not
\* raise
C30_NoClientNoVendorCall ==
    LET AgbOps == {"method", "is_available", "get_info",
                   "initialize_browser", "get_browser_endpoint",
                   "call_tool", "cleanup", "create_session"}
    IN
    ~agb_client =>
        /\ agb_session = 0
        /\ agb_session_info = NoInfo
        /\ agbLive = {}
        /\ agbNextId = 1
        /\ \A i \in 1..MaxAgbSessions : agbDeletes[i] = 0
        /\ agbLast.op \in AgbOps => agbLast.calls = 0
        /\ agbLast.op = "is_available" =>
              ~agbLast.success /\ ~agbLast.raised
        /\ (agbLast.op \in {"method", "call_tool"}
                /\ agbLast.name \in AgbSessionTools) =>
              /\ ~agbLast.success
              /\ agbLast.error = "msg"
              /\ ~agbLast.raised

\* execute_code has been called on a handle without a client
C30_Witness ==
    /\ ~agb_client
    /\ agbLast.op = "method"
    /\ agbLast.name = "agb_execute_code"
    /\ ~agbLast.success

====
